---- MODULE Spec2Model ----
(***************************************************************************)
(* Project Clarion fact-checking platform.                                 *)
(*                                                                         *)
(* The model covers the fact-check orchestration engine (claim             *)
(* fingerprint, result cache, retry/backoff controller, verdict composer)  *)
(* the JournalistChat form that calls it and the TrendingNews dashboard.   *)
(* The cache, the fingerprint                                              *)
(* and the result object follow the Python fragment of the rate-limit      *)
(* guide; the form follows JournalistChat.jsx; the parts of the backend    *)
(* that are not in the repository's sources (input validation, adapters,   *)
(* retry loop, article deduplication) follow the design document.          *)
(***************************************************************************)
EXTENDS Integers, Sequences, FiniteSets, TLC

VARIABLES
    calls,      \* server side: one record per request slot (position and locals of fact_check_with_newsdata)
    cache,      \* fact_check_cache: fingerprint -> [data, timestamp]
    now,        \* time.time()
    nreq,       \* number of POST requests sent so far
    claim,      \* JournalistChat: useState('')   (text of the textarea)
    result,     \* JournalistChat: useState(null)
    loading,    \* JournalistChat: useState(false)
    error,      \* JournalistChat: useState(null)
    history,    \* JournalistChat: useState([])
    inflight,   \* the POST /api/fact-check requests of the form on their way to the server
    response,   \* JournalistChat: the responses of resolved fetches whose body is being read
    activeTab,  \* App: useState('trending')
    newsItems,  \* TrendingNews: news, useState([])
    newsLoading, \* TrendingNews: useState(true)   (its loading)
    newsError,  \* TrendingNews: useState(null)   (its error)
    topics,     \* server side: the trending-topics list of the last GET /api/trending
    trending    \* the GET /api/trending request of the dashboard, then its response

vars == <<calls, cache, now, nreq, claim, result, loading, error, history, inflight,
          response, activeTab,
          newsItems, newsLoading, newsError, topics, trending>>

trendVars == <<newsItems, newsLoading, newsError, topics, trending>>

uiVars == <<claim, result, loading, error, history, inflight, response, activeTab>>

----------------------------------------------------------------------------
(* Bounds of the model *)

MaxClaimLen == 2        \* longest claim text, in characters
MaxArticles == 2        \* longest article list one News Adapter call returns
MaxRequests == 2        \* requests accepted by the server in one behaviour
MaxTopics == 6          \* headlines in a trending-topics list
MaxTime == 3600         \* the clock stops ticking on its own past this time

(* Program constants *)

TTL == 3600             \* cache time-to-live, seconds
\* a retry loop that stops one attempt early
MaxAttemptsOneLess == 3 - 1

MaxAttempts == 3        \* max_retries
BaseDelay == 2          \* first backoff delay, seconds

----------------------------------------------------------------------------
(* Text.  A text is a sequence of one-character strings. *)

\* "^" stands for U+001F, which Python's strip() removes and JavaScript's
\* trim() keeps
Chars == {"a", "A", " ", "^"}

\* whitespace for str.strip()
IsSpace(ch) == ch \in {" ", "^"}

\* whitespace for String.prototype.trim()
IsJsSpace(ch) == ch = " "

ToLower(ch) == IF ch = "A" THEN "a" ELSE ch

\* str.lower()
Lower(s) == [i \in 1..Len(s) |-> ToLower(s[i])]

RECURSIVE StripLeft(_)
StripLeft(s) ==
    IF s = <<>> THEN <<>>
    ELSE IF IsSpace(Head(s)) THEN StripLeft(Tail(s))
    ELSE s

RECURSIVE StripRight(_)
StripRight(s) ==
    IF s = <<>> THEN <<>>
    ELSE IF IsSpace(s[Len(s)]) THEN StripRight(SubSeq(s, 1, Len(s) - 1))
    ELSE s

\* str.strip()
Strip(s) == StripRight(StripLeft(s))

\* a trim that removes nothing
trimNothing(s) == s

\* String.prototype.trim() of the form
RECURSIVE trim(_)
trim(s) ==
    IF s = <<>> THEN <<>>
    ELSE IF IsJsSpace(Head(s)) THEN trim(Tail(s))
    ELSE IF IsJsSpace(s[Len(s)]) THEN trim(SubSeq(s, 1, Len(s) - 1))
    ELSE s

CharCode(ch) ==
    IF ch = " " THEN 1 ELSE IF ch = "a" THEN 2 ELSE IF ch = "A" THEN 3 ELSE 4

\* hashlib.md5(...).hexdigest(): a digest that tells different texts apart
\* (collisions of the real digest are outside the model)
RECURSIVE Md5(_)
Md5(s) ==
    IF s = <<>> THEN 1
    ELSE Md5(SubSeq(s, 1, Len(s) - 1)) * 5 + CharCode(s[Len(s)])

\* a key taken from the stripped text without lower-casing it
get_cache_key_no_lower(c) == Md5(Strip(c))

\* get_cache_key(claim): md5 of claim.lower().strip()
get_cache_key(c) == Md5(Strip(Lower(c)))

TextsUpTo(n) == UNION {[1..k -> Chars] : k \in 0..n}

AllClaims == TextsUpTo(MaxClaimLen)

----------------------------------------------------------------------------
(* Source results and adapter outcomes *)

Pending == [kind |-> "Pending"]

Unavailable(reason) == [kind |-> "Unavailable", reason |-> reason]

FactCheckHit(v, src, sum) ==
    [kind |-> "FactCheckHit", verdict |-> v, source |-> src, summary |-> sum]

ArticleList(arts) == [kind |-> "ArticleList", articles |-> arts]

AiAnalysis(text) == [kind |-> "AiAnalysis", text |-> text]

\* one adapter invocation either returns a normalised SourceResult or
\* reports a typed failure
Return(v) == [kind |-> "Return", value |-> v]

Raise(k) == [kind |-> "Raise", value |-> Unavailable(k)]

TransientKinds == {"RateLimited", "Timeout", "ServerError"}

FailureKinds == TransientKinds \cup {"AuthError"}

Article(t, s, u, d) == [title |-> t, source |-> s, url |-> u, description |-> d]

\* A1 and A1b agree on (title, source, url) and differ in the description
A1 == Article("t1", "BBC", "u1", "d1")

A1b == Article("t1", "BBC", "u1", "d2")

A2 == Article("t2", "BBC", "u1", "d1")

Articles == {A1, A1b, A2}

ArticleSeqs(n) == UNION {[1..k -> Articles] : k \in 0..n}

\* outcomes of one Fact-Check Adapter call; no record found is the
\* normal return value Unavailable("no_match")
FcOutcomes ==
    {Return(FactCheckHit(v, "PolitiFact", "s1")) : v \in {"FALSE", "VERIFIED", "UNCHECKED"}}
    \cup {Return(Unavailable("no_match"))}
    \cup {Raise(k) : k \in FailureKinds}

\* outcomes of one News Adapter call; zero results is a valid empty list
NewsOutcomes ==
    {Return(ArticleList(a)) : a \in ArticleSeqs(MaxArticles)}
    \cup {Raise(k) : k \in FailureKinds}

\* outcomes of one AI Adapter call
AiOutcomes ==
    {Return(AiAnalysis(t)) : t \in {"likely true", "likely false"}}
    \cup {Raise(k) : k \in FailureKinds}

----------------------------------------------------------------------------
(* Retry/Backoff Controller *)

\* a loop that sleeps the base delay before every retry
DelayConstant(n) == BaseDelay

\* delay slept after the n-th failed attempt: 2 s, 4 s, ...
Delay(n) == BaseDelay * 2 ^ (n - 1)

\* a well-formed answer that holds no evidence: no fact-check record, no
\* article
NoResults(v) ==
    \/ v.kind = "Unavailable"
    \/ v.kind = "ArticleList" /\ v.articles = <<>>

\* what the retry loop records about one attempt
Tag(o) ==
    IF o.kind = "Raise" THEN o.value.reason
    ELSE IF NoResults(o.value) THEN "empty"
    ELSE "ok"

\* a loop that tries again after any failure
RetriableAlways(kind) == TRUE

\* may a failure of this kind be tried again
Retriable(kind) == kind \in TransientKinds

\* a loop that re-raises the failure it gives up on
withRetryRaising(log, o) ==
    LET n == Len(log) + 1 IN
    IF o.kind = "Return"
    THEN [final |-> TRUE, raised |-> FALSE, value |-> o.value, wait |-> 0]
    ELSE IF o.value.reason \in TransientKinds /\ n < 3
    THEN [final |-> FALSE, raised |-> FALSE, value |-> Pending, wait |-> 2 * 2 ^ (n - 1)]
    ELSE [final |-> TRUE, raised |-> TRUE, value |-> o.value, wait |-> 0]

\* One pass of the retry loop: log holds the tags of the earlier attempts
\* of this call, o is the outcome of the attempt just made.  The loop ends
\* with the adapter's value, goes round again after a wait, or ends with
\* Unavailable(reason) as its value; it never lets the failure escape
\* (raised).
withRetryStep(log, o) ==
    LET n == Len(log) + 1 IN
    IF o.kind = "Return"
    THEN [final |-> TRUE, raised |-> FALSE, value |-> o.value, wait |-> 0]
    ELSE IF Retriable(o.value.reason) /\ n < MaxAttempts
    THEN [final |-> FALSE, raised |-> FALSE, value |-> Pending, wait |-> Delay(n)]
    ELSE [final |-> TRUE, raised |-> FALSE, value |-> o.value, wait |-> 0]

----------------------------------------------------------------------------
(* Verdict Composer *)

\* the notices, without the warning sign that opens them
RateLimitNotice ==
    "AI Analysis temporarily unavailable due to rate limits. \nPlease try again in a few moments.\n\nBased on the articles found, please review the sources manually for now."

AuthNotice ==
    "AI Analysis unavailable - API key issue. \nPlease check your Gemini API key.\n\nBased on the articles found, please review the sources manually."

NoAnalysis == ""

ArticleKey(a) == <<a.title, a.source, a.url>>

\* keep the first article of every (title, source, url), in the given order
RECURSIVE Dedupe(_)
Dedupe(arts) ==
    IF arts = <<>> THEN <<>>
    ELSE LET front == Dedupe(SubSeq(arts, 1, Len(arts) - 1))
             last == arts[Len(arts)]
         IN IF \E i \in 1..Len(front) : ArticleKey(front[i]) = ArticleKey(last)
            THEN front
            ELSE Append(front, last)

\* a pipeline that passes the adapter's articles on as they came
SupportingArticlesRaw(news) ==
    IF news.kind = "ArticleList" THEN news.articles ELSE <<>>

\* the function's local articles: the adapter's list, deduplicated
SupportingArticles(news) ==
    IF news.kind = "ArticleList" THEN Dedupe(news.articles) ELSE <<>>

\* a composer that leaves the analysis empty when the AI gave none
AnalysisTextNoNotice(ai) ==
    IF ai.kind = "AiAnalysis" THEN ai.text ELSE NoAnalysis

\* the function's local analysis: the AI's text, or the notice of the AI
\* failure kind
AnalysisText(ai) ==
    IF ai.kind = "AiAnalysis" THEN ai.text
    ELSE IF ai.kind = "Unavailable" /\ ai.reason = "RateLimited" THEN RateLimitNotice
    ELSE IF ai.kind = "Unavailable" /\ ai.reason = "AuthError" THEN AuthNotice
    ELSE NoAnalysis

\* a result object with a placeholder for the fact-check record
ComposeVerdictWithPlaceholder(c, articles, analysis) ==
    [claim |-> c,
     verdict |-> "ANALYZED",
     analysis |-> analysis,
     supporting_articles |-> articles,
     articles_count |-> Len(articles),
     google_fact_check |-> [verdict |-> "UNCHECKED", source |-> "N/A", summary |-> ""]]

\* the result object of fact_check_with_newsdata, from the function's
\* locals claim, analysis and articles
ComposeVerdict(c, articles, analysis) ==
    [claim |-> c,
     verdict |-> "ANALYZED",
     analysis |-> analysis,
     supporting_articles |-> articles,
     articles_count |-> Len(articles)]

----------------------------------------------------------------------------
(* Result cache *)

\* a lookup with the age test turned round
CacheHitInverted(k, t) == k \in DOMAIN cache /\ t - cache[k].timestamp > TTL

\* a lookup that still serves an entry of exactly the TTL's age
CacheHitInclusive(k, t) == k \in DOMAIN cache /\ t - cache[k].timestamp <= TTL

\* if cache_key in fact_check_cache and time.time() - timestamp < 3600
CacheHit(k, t) == k \in DOMAIN cache /\ t - cache[k].timestamp < TTL

\* a store that replaces the whole cache by the new entry
CachePutDropsOthers(k, data, t) ==
    [x \in {k} |-> [data |-> data, timestamp |-> t]]

\* a store that keeps the entry a fingerprint already has
CachePutIfAbsent(k, data, t) ==
    [x \in DOMAIN cache \cup {k} |->
        IF x \in DOMAIN cache THEN cache[x] ELSE [data |-> data, timestamp |-> t]]

\* fact_check_cache[cache_key] = {'data': result, 'timestamp': time.time()}
CachePut(k, data, t) ==
    [x \in DOMAIN cache \cup {k} |->
        IF x = k THEN [data |-> data, timestamp |-> t] ELSE cache[x]]

----------------------------------------------------------------------------
(* Server: POST /api/fact-check *)

Slots == {"s1"}

NoResp == [status |-> 0]

Ok(data) == [status |-> 200, data |-> data]

Rejected == [status |-> 400, detail |-> "claim must not be empty"]

\* a response body without a detail member
NoDetail == ""

\* the response to a request whose handler let an exception escape
InternalError(reason) ==
    [status |-> 500,
     detail |-> IF reason = "RateLimited" THEN "Gemini rate limit exceeded"
                ELSE IF reason = "AuthError" THEN "Invalid API key"
                ELSE NoDetail]

IdleCall ==
    [stage |-> "idle", via |-> "none", caller |-> "none", claim |-> <<>>,
     fc |-> Pending, news |-> Pending, ai |-> Pending,
     articles |-> <<>>, analysis |-> NoAnalysis,
     logOf |-> "none", log |-> <<>>, waits |-> <<>>, resp |-> NoResp]

\* input validation of the endpoint: the claim is blank after trimming
IsBlank(c) == Strip(c) = <<>>

\* fact_check_with_newsdata up to the end of the cache test: the cached
\* result on a hit, else on to the rest of the function
Lookup(c, who) ==
    IF CacheHit(get_cache_key(c), now)
    THEN [IdleCall EXCEPT !.stage = "returned", !.via = "hit", !.caller = who,
                          !.claim = c, !.resp = Ok(cache[get_cache_key(c)].data)]
    ELSE [IdleCall EXCEPT !.stage = "fc", !.caller = who, !.claim = c]

\* the endpoint: a blank claim is rejected, any other is handed to
\* fact_check_with_newsdata
Accept(c, who) ==
    IF IsBlank(c)
    THEN [IdleCall EXCEPT !.stage = "returned", !.via = "reject", !.caller = who,
                          !.claim = c, !.resp = Rejected]
    ELSE Lookup(c, who)

\* a client other than the form posts claim c
ApiRequest(p, c) ==
    /\ calls[p].stage = "idle"
    /\ nreq < MaxRequests
    /\ calls' = [calls EXCEPT ![p] = Accept(c, "api")]
    /\ nreq' = nreq + 1
    /\ UNCHANGED <<trendVars, cache, now, uiVars>>

\* a pipeline that starts over after the AI Adapter
NextStageStartsOver(stage) ==
    IF stage = "fc" THEN "news" ELSE IF stage = "news" THEN "ai" ELSE "fc"

\* a pipeline that composes without calling the AI Adapter
NextStageSkipsAi(stage) ==
    IF stage = "fc" THEN "news" ELSE "compose"

NextStage(stage) ==
    IF stage = "fc" THEN "news" ELSE IF stage = "news" THEN "ai" ELSE "compose"

\* one adapter invocation of the current source, under the retry loop
Attempt(p, o) ==
    /\ calls[p].stage \in {"fc", "news", "ai"}
    /\ LET cur == calls[p]
           log == IF cur.logOf = cur.stage THEN cur.log ELSE <<>>
           waits == IF cur.logOf = cur.stage THEN cur.waits ELSE <<>>
           step == withRetryStep(log, o)
           seen == [cur EXCEPT !.logOf = cur.stage, !.log = Append(log, Tag(o)),
                               !.waits = waits]
       IN IF step.raised
          THEN /\ calls' = [calls EXCEPT ![p] =
                    [seen EXCEPT !.stage = "returned", !.via = "error",
                                 !.resp = InternalError(o.value.reason)]]
               /\ now' = now
          ELSE IF step.final
          THEN /\ calls' = [calls EXCEPT ![p] =
                    [seen EXCEPT !.stage = NextStage(cur.stage),
                                 !.fc = IF cur.stage = "fc" THEN step.value ELSE @,
                                 !.news = IF cur.stage = "news" THEN step.value ELSE @,
                                 !.ai = IF cur.stage = "ai" THEN step.value ELSE @,
                                 !.articles = IF cur.stage = "news"
                                              THEN SupportingArticles(step.value) ELSE @,
                                 !.analysis = IF cur.stage = "ai"
                                              THEN AnalysisText(step.value) ELSE @]]
               /\ now' = now
          ELSE /\ calls' = [calls EXCEPT ![p] =
                    [seen EXCEPT !.waits = Append(waits, step.wait)]]
               /\ now' = now + step.wait
    /\ UNCHANGED <<trendVars, cache, nreq, uiVars>>

\* compose the result, store it in the cache, return it
ComposeAndStore(p) ==
    /\ calls[p].stage = "compose"
    /\ LET cur == calls[p]
           data == ComposeVerdict(cur.claim, cur.articles, cur.analysis)
       IN /\ cache' = CachePut(get_cache_key(cur.claim), data, now)
          /\ calls' = [calls EXCEPT ![p] =
                [cur EXCEPT !.stage = "returned", !.via = "miss", !.resp = Ok(data)]]
    /\ UNCHANGED <<trendVars, now, nreq, uiVars>>

\* the response reaches a client other than the form, or nobody
ApiReceive(p) ==
    /\ calls[p].stage = "returned"
    /\ calls[p].caller \in {"api", "gone"}
    /\ calls' = [calls EXCEPT ![p] = IdleCall]
    /\ UNCHANGED <<trendVars, cache, now, nreq, uiVars>>

TickSteps == {TTL - 1, TTL}

\* time passes
Tick(d) ==
    /\ now + d <= MaxTime
    /\ now' = now + d
    /\ UNCHANGED <<trendVars, calls, cache, nreq, uiVars>>

----------------------------------------------------------------------------
(* JournalistChat form *)

\* the sequence s without its element i
Remove(s, i) == SubSeq(s, 1, i - 1) \o SubSeq(s, i + 1, Len(s))

\* a POST of the form on its way to the server: the text of the body
\* (claim.trim() of the handler that sent it) and whether the form that
\* sent it is still mounted
Post(c) == [claim |-> c, live |-> TRUE]

\* the request of inflight[i] reaches the server; the handler that sent it
\* is waiting, or its form has been unmounted since
UiRequest(p, i) ==
    /\ calls[p].stage = "idle"
    /\ i \in 1..Len(inflight)
    /\ calls' = [calls EXCEPT ![p] =
            Accept(inflight[i].claim, IF inflight[i].live THEN "ui" ELSE "gone")]
    /\ inflight' = Remove(inflight, i)
    /\ UNCHANGED <<trendVars, cache, now, nreq, claim, result, loading, error, history,
                   response, activeTab>>

\* onChange of the textarea
setClaim(c) ==
    /\ activeTab = "journalist"
    /\ claim' = c
    /\ UNCHANGED <<trendVars, calls, cache, now, nreq, result, loading, error, history,
                   inflight, response, activeTab>>

\* the button of the form: disabled={loading || !claim.trim()}
submitDisabled == loading \/ trim(claim) = <<>>

\* handleSubmit, called with the submit event of the form, up to the await
\* of fetch.  The function tests the text only: a call while an earlier
\* one is waiting sends another request.
handleSubmit ==
    /\ activeTab = "journalist"
    /\ IF trim(claim) = <<>>
       THEN /\ error' = <<"Please enter a claim to fact-check">>
            /\ UNCHANGED <<loading, inflight, nreq>>
       ELSE /\ nreq < MaxRequests
            /\ loading' = TRUE
            /\ error' = <<>>
            /\ inflight' = Append(inflight, Post(trim(claim)))
            /\ nreq' = nreq + 1
    /\ UNCHANGED <<trendVars, calls, cache, now, claim, result, history, response, activeTab>>

\* errorData?.detail.includes(...) on the details the server sends
MentionsRateLimit(detail) == detail \in {"Gemini rate limit exceeded"}

MentionsApiKey(detail) == detail \in {"Invalid API key"}

\* `Server error: ${response.status}`
ServerError(status) == "Server error: " \o ToString(status)

\* the message thrown for a response that is not ok; the two fixed
\* messages are written without the warning sign and the space that open
\* them in the source
ErrorMessage(resp) ==
    LET errorMessage == IF resp.detail = NoDetail THEN ServerError(resp.status)
                        ELSE resp.detail
    IN IF resp.status = 500 /\ MentionsRateLimit(errorMessage)
       THEN "Rate limit reached. Please wait a moment and try again."
       ELSE IF resp.status = 500 /\ MentionsApiKey(errorMessage)
       THEN "API configuration issue. Please check your API keys."
       ELSE errorMessage

\* the fetch of a handler of the mounted form resolves: the response has
\* arrived and its body is being read (await response.json()); the handler
\* keeps the text it posted
FetchResolves(p) ==
    /\ calls[p].stage = "returned"
    /\ calls[p].caller = "ui"
    /\ response' = Append(response, [resp |-> calls[p].resp, claim |-> calls[p].claim])
    /\ calls' = [calls EXCEPT ![p] = IdleCall]
    /\ UNCHANGED <<trendVars, cache, now, nreq, claim, result, loading, error, history,
                   inflight, activeTab>>

\* a form that calls setLoading(false) at the end of the try block
UiReceiveNoFinally(i) ==
    /\ i \in 1..Len(response)
    /\ LET resp == response[i].resp IN
       IF resp.status = 200
       THEN /\ result' = <<resp.data>>
            /\ history' = <<[claim |-> response[i].claim, result |-> resp.data,
                             timestamp |-> now]>> \o history
            /\ claim' = <<>>
            /\ error' = error
            /\ loading' = FALSE
       ELSE /\ error' = <<ErrorMessage(resp)>>
            /\ UNCHANGED <<result, history, claim, loading>>
    /\ response' = Remove(response, i)
    /\ UNCHANGED <<trendVars, calls, cache, now, nreq, inflight, activeTab>>

\* a form that puts the new entry at the end of the history
UiReceiveAppends(i) ==
    /\ i \in 1..Len(response)
    /\ LET resp == response[i].resp IN
       IF resp.status = 200
       THEN /\ result' = <<resp.data>>
            /\ history' = history \o <<[claim |-> response[i].claim, result |-> resp.data,
                                        timestamp |-> now]>>
            /\ claim' = <<>>
            /\ error' = error
       ELSE /\ error' = <<ErrorMessage(resp)>>
            /\ UNCHANGED <<result, history, claim>>
    /\ loading' = FALSE
    /\ response' = Remove(response, i)
    /\ UNCHANGED <<trendVars, calls, cache, now, nreq, inflight, activeTab>>

\* handleSubmit from the body read to the end of finally, for the handler
\* whose response is response[i]
UiReceive(i) ==
    /\ i \in 1..Len(response)
    /\ LET resp == response[i].resp IN
       IF resp.status = 200
       THEN /\ result' = <<resp.data>>
            /\ history' = <<[claim |-> response[i].claim, result |-> resp.data,
                             timestamp |-> now]>> \o history
            /\ claim' = <<>>
            /\ error' = error
       ELSE /\ error' = <<ErrorMessage(resp)>>
            /\ UNCHANGED <<result, history, claim>>
    /\ loading' = FALSE
    /\ response' = Remove(response, i)
    /\ UNCHANGED <<trendVars, calls, cache, now, nreq, inflight, activeTab>>

\* err.message of a rejected response.json(); the text is the browser's
BodyErrors == {"Unexpected end of JSON input", "network error"}

\* response.json() of response[i] rejects.  For a response that is not ok
\* the catch of line 34 gives errorData = null and the message is made of
\* the status; for an ok response the rejection is caught at line 57.
JsonRejects(i, m) ==
    /\ i \in 1..Len(response)
    /\ LET resp == response[i].resp IN
       error' = IF resp.status = 200 THEN <<m>>
                ELSE <<ErrorMessage([status |-> resp.status, detail |-> NoDetail])>>
    /\ loading' = FALSE
    /\ response' = Remove(response, i)
    /\ UNCHANGED <<trendVars, calls, cache, now, nreq, claim, result, history, inflight,
                   activeTab>>

\* the fetch of the request inflight[i] of the mounted form rejects before
\* the request has reached the server: catch and finally run
FetchFailsUnsent(i) ==
    /\ i \in 1..Len(inflight)
    /\ inflight[i].live
    /\ error' = <<"Failed to fetch">>
    /\ loading' = FALSE
    /\ inflight' = Remove(inflight, i)
    /\ UNCHANGED <<trendVars, calls, cache, now, nreq, claim, result, history, response,
                   activeTab>>

\* a server that drops the work of a request whose caller is gone
FetchFailsCancels(p) ==
    /\ calls[p].caller = "ui"
    /\ error' = <<"Failed to fetch">>
    /\ loading' = FALSE
    /\ calls' = [calls EXCEPT ![p] = IdleCall]
    /\ UNCHANGED <<trendVars, cache, now, nreq, claim, result, history, inflight, response,
                   activeTab>>

\* the fetch of the request the server holds in p rejects (the connection
\* is lost): catch and finally run; the request goes on without its caller
FetchFails(p) ==
    /\ calls[p].caller = "ui"
    /\ error' = <<"Failed to fetch">>
    /\ loading' = FALSE
    /\ calls' = [calls EXCEPT ![p].caller = "gone"]
    /\ UNCHANGED <<trendVars, cache, now, nreq, claim, result, history, inflight, response,
                   activeTab>>

\* the Clear History button, rendered while the history is not empty
clearHistory ==
    /\ activeTab = "journalist"
    /\ Len(history) > 0
    /\ history' = <<>>
    /\ result' = <<>>
    /\ UNCHANGED <<trendVars, calls, cache, now, nreq, claim, loading, error, inflight,
                   response, activeTab>>

----------------------------------------------------------------------------
(* Trending dashboard: GET /api/trending and TrendingNews *)

\* a dashboard that takes one item more
TrendingCountPlusOne == 5 + 1

\* "Fetches top 5 trending news"
TrendingCount == 5

\* verdict texts, letter by letter
VERIFIED == <<"V", "E", "R", "I", "F", "I", "E", "D">>
FALSE_ == <<"F", "A", "L", "S", "E">>
MISLEADING == <<"M", "I", "S", "L", "E", "A", "D", "I", "N", "G">>
UNCHECKED == <<"U", "N", "C", "H", "E", "C", "K", "E", "D">>
ANALYZED == <<"A", "N", "A", "L", "Y", "Z", "E", "D">>
True_ == <<"T", "r", "u", "e">>
NeedsReview == <<"N", "e", "e", "d", "s", " ", "R", "e", "v", "i", "e", "w">>

\* the enumerated set of verdict labels
VerdictLabels == {VERIFIED, FALSE_, MISLEADING, UNCHECKED, ANALYZED}

\* the verdict texts a trending item carries, in a fixed order
TrendVerdicts == <<VERIFIED, FALSE_, MISLEADING, UNCHECKED, ANALYZED, True_, NeedsReview>>

\* String.prototype.toUpperCase, on the letters of the verdict texts
UpperChar(ch) ==
    CASE ch = "r" -> "R" [] ch = "u" -> "U" [] ch = "e" -> "E" [] ch = "d" -> "D"
      [] ch = "s" -> "S" [] ch = "v" -> "V" [] ch = "i" -> "I" [] ch = "w" -> "W"
      [] OTHER -> ch

toUpperCase(s) == [i \in 1..Len(s) |-> UpperChar(s[i])]

\* String.prototype.includes
includes(s, w) ==
    \E i \in 0..(Len(s) - Len(w)) : SubSeq(s, i + 1, i + Len(w)) = w

\* a badge that has no red class for MISLEADING
getVerdictClassNoMisleading(verdict) ==
    LET v == toUpperCase(verdict) IN
    IF includes(v, VERIFIED) \/ includes(v, <<"T", "R", "U", "E">>) THEN "verified"
    ELSE IF includes(v, FALSE_) THEN "false"
    ELSE "unchecked"

\* getVerdictClass
getVerdictClass(verdict) ==
    LET v == toUpperCase(verdict) IN
    IF includes(v, VERIFIED) \/ includes(v, <<"T", "R", "U", "E">>) THEN "verified"
    ELSE IF includes(v, FALSE_) \/ includes(v, MISLEADING) THEN "false"
    ELSE IF includes(v, UNCHECKED) \/ includes(v, <<"N", "E", "E", "D", "S">>) THEN "unchecked"
    ELSE "unchecked"

\* getVerdictIcon; the four pictographs are named: check mark, cross mark,
\* warning sign, magnifying glass
getVerdictIcon(verdict) ==
    LET v == toUpperCase(verdict) IN
    IF includes(v, VERIFIED) \/ includes(v, <<"T", "R", "U", "E">>) THEN "check mark"
    ELSE IF includes(v, FALSE_) \/ includes(v, MISLEADING) THEN "cross mark"
    ELSE IF includes(v, UNCHECKED) \/ includes(v, <<"N", "E", "E", "D", "S">>) THEN "warning sign"
    ELSE "magnifying glass"

\* the trending-topics lists the News Adapter returns: headlines are
\* numbered, and a list of n of them comes in rising or in falling order
TopicLists ==
    {[i \in 1..n |-> i] : n \in 0..MaxTopics} \cup
    {[i \in 1..n |-> n + 1 - i] : n \in 0..MaxTopics}

\* the verdict texts of the items of one response: a run of TrendVerdicts
VerdictRuns ==
    {[i \in 1..MaxTopics |-> TrendVerdicts[((i + s) % Len(TrendVerdicts)) + 1]] :
        s \in 0..(Len(TrendVerdicts) - 1)}

Min(a, b) == IF a <= b THEN a ELSE b

\* fetchTrending: the first TrendingCount headlines of the list, each with
\* its verdict and its rank in the list
fetchTrending(tl, vs) ==
    [i \in 1..Min(Len(tl), TrendingCount) |->
        [id |-> i, title |-> tl[i], verdict |-> vs[i]]]

NoTrending == <<>>
TrendingRequest == <<[status |-> 0, data |-> <<>>, arrived |-> FALSE]>>
TrendingOk(items) == <<[status |-> 200, data |-> items, arrived |-> FALSE]>>
TrendingFailed == <<[status |-> 500, data |-> <<>>, arrived |-> FALSE]>>

\* TrendingNews after its first render: the effect has called
\* fetchTrendingNews
TrendingMounted ==
    /\ newsItems = <<>>
    /\ newsLoading = TRUE
    /\ newsError = <<>>
    /\ topics = <<>>
    /\ trending = TrendingRequest

\* fetchTrendingNews up to the await of fetch, from the Refresh and Retry
\* buttons, which are rendered when the dashboard is not loading
fetchTrendingNews ==
    /\ activeTab = "trending"
    /\ ~newsLoading
    /\ newsLoading' = TRUE
    /\ newsError' = <<>>
    /\ trending' = TrendingRequest
    /\ UNCHANGED <<calls, cache, now, nreq, uiVars, newsItems, topics>>

\* GET /api/trending on the server
ServeTrending(tl, vs) ==
    /\ trending = TrendingRequest
    /\ topics' = tl
    /\ trending' = TrendingOk(fetchTrending(tl, vs))
    /\ UNCHANGED <<calls, cache, now, nreq, uiVars, newsItems, newsLoading, newsError>>

\* GET /api/trending answered with a status that is not ok
ServeTrendingFails ==
    /\ trending = TrendingRequest
    /\ trending' = TrendingFailed
    /\ UNCHANGED <<calls, cache, now, nreq, uiVars, newsItems, newsLoading, newsError, topics>>

\* the fetch of fetchTrendingNews resolves.  An ok response is then read
\* (await response.json()); for any other the function throws at once,
\* and catch and finally run
TrendingResolves ==
    /\ trending # NoTrending
    /\ trending # TrendingRequest
    /\ ~trending[1].arrived
    /\ IF trending[1].status = 200
       THEN /\ trending' = <<[trending[1] EXCEPT !.arrived = TRUE]>>
            /\ UNCHANGED <<newsError, newsLoading>>
       ELSE /\ newsError' = <<"Failed to fetch trending news">>
            /\ newsLoading' = FALSE
            /\ trending' = NoTrending
    /\ UNCHANGED <<calls, cache, now, nreq, uiVars, newsItems, topics>>

\* fetchTrendingNews from the body read on: setNews(data.data), then
\* finally setLoading(false)
ReceiveTrending ==
    /\ trending # NoTrending
    /\ trending[1].arrived
    /\ newsItems' = trending[1].data
    /\ newsLoading' = FALSE
    /\ trending' = NoTrending
    /\ UNCHANGED <<calls, cache, now, nreq, uiVars, newsError, topics>>

\* response.json() of the dashboard rejects: catch and finally
TrendingJsonRejects(m) ==
    /\ trending # NoTrending
    /\ trending[1].arrived
    /\ newsError' = <<m>>
    /\ newsLoading' = FALSE
    /\ trending' = NoTrending
    /\ UNCHANGED <<calls, cache, now, nreq, uiVars, newsItems, topics>>

\* the fetch rejects, before or after the server has answered: catch and
\* finally
TrendingFetchFails ==
    /\ trending # NoTrending
    /\ ~trending[1].arrived
    /\ newsError' = <<"Failed to fetch">>
    /\ newsLoading' = FALSE
    /\ trending' = NoTrending
    /\ UNCHANGED <<calls, cache, now, nreq, uiVars, newsItems, topics>>

\* App: a tab button calls setActiveTab(tab).  The component of the other
\* tab is unmounted and its state is gone: a response that arrives for it
\* later changes nothing, and a request the server holds or is about to get
\* goes on without its caller.  The component of the new tab is mounted
\* with its initial state; TrendingNews then calls fetchTrendingNews.
setActiveTab(tab) ==
    /\ tab # activeTab
    /\ activeTab' = tab
    /\ claim' = <<>>
    /\ result' = <<>>
    /\ loading' = FALSE
    /\ error' = <<>>
    /\ history' = <<>>
    /\ response' = <<>>
    /\ inflight' = [i \in 1..Len(inflight) |-> [inflight[i] EXCEPT !.live = FALSE]]
    /\ calls' = [p \in DOMAIN calls |->
                    IF calls[p].caller = "ui"
                    THEN [calls[p] EXCEPT !.caller = "gone"]
                    ELSE calls[p]]
    /\ newsItems' = <<>>
    /\ newsLoading' = TRUE
    /\ newsError' = <<>>
    /\ trending' = IF tab = "trending" THEN TrendingRequest ELSE NoTrending
    /\ UNCHANGED <<cache, now, nreq, topics>>

-----------------------------------------------------------------------------
(* Specifications *)

\* every outcome an adapter call can have
OutcomesOf(stage) ==
    IF stage = "fc" THEN FcOutcomes
    ELSE IF stage = "news" THEN NewsOutcomes
    ELSE AiOutcomes

\* the outcomes the system specification lets the providers have: the
\* fact-check and news providers answer, the AI provider answers, is
\* throttled or refuses the credential
FewOutcomesOf(stage) ==
    IF stage = "fc"
    THEN {Return(FactCheckHit("FALSE", "PolitiFact", "s1"))}
    ELSE IF stage = "news"
    THEN {Return(ArticleList(<<A1, A1b>>))}
    ELSE {Return(AiAnalysis("likely true")), Raise("RateLimited"), Raise("AuthError")}

Init ==
    /\ calls = [p \in Slots |-> IdleCall]
    /\ cache = <<>>
    /\ now = 0
    /\ nreq = 0
    /\ claim = <<>>
    /\ result = <<>>
    /\ loading = FALSE
    /\ error = <<>>
    /\ history = <<>>
    /\ inflight = <<>>
    /\ response = <<>>
    /\ activeTab = "trending"
    /\ TrendingMounted

\* the texts typed into the form and the claims other clients post in
\* the system specification
UiClaims == {<<" ">>, <<"^">>, <<"a">>, <<"a", "a">>, <<"a", " ">>}

ApiClaims == {<<>>, <<" ", " ">>, <<"A", " ">>}

Next ==
    \/ \E p \in Slots, c \in ApiClaims : ApiRequest(p, c)
    \/ \E p \in Slots : \E i \in 1..Len(inflight) : UiRequest(p, i)
    \/ \E p \in Slots : \E o \in FewOutcomesOf(calls[p].stage) : Attempt(p, o)
    \/ \E p \in Slots : ComposeAndStore(p)
    \/ \E p \in Slots : ApiReceive(p)
    \/ \E p \in Slots : FetchResolves(p)
    \/ \E i \in 1..Len(response) : UiReceive(i)
    \/ \E i \in 1..Len(response), m \in BodyErrors : JsonRejects(i, m)
    \/ \E tab \in {"trending", "journalist"} : setActiveTab(tab)
    \/ \E d \in TickSteps : Tick(d)
    \/ \E c \in UiClaims : setClaim(c)
    \/ handleSubmit
    \/ \E i \in 1..Len(inflight) : FetchFailsUnsent(i)
    \/ \E p \in Slots : FetchFails(p)
    \/ clearHistory

Spec == Init /\ [][Next]_vars

\* The engine alone: requests of other clients, every outcome of every
\* adapter call.
EngineClaims == {<<" ">>, <<"A", " ">>}

NextEngine ==
    \/ \E p \in Slots, c \in EngineClaims : ApiRequest(p, c)
    \/ \E p \in Slots : \E o \in OutcomesOf(calls[p].stage) : Attempt(p, o)
    \/ \E p \in Slots : ComposeAndStore(p)
    \/ \E p \in Slots : ApiReceive(p)

SpecEngine == Init /\ [][NextEngine]_vars

\* The fingerprint and the cache over every claim text of the bounded
\* alphabet; the providers answer at once.
AnsweringOutcomesOf(stage) ==
    IF stage = "fc"
    THEN {Return(Unavailable("no_match"))}
    ELSE IF stage = "news"
    THEN {Return(ArticleList(<<A1>>))}
    ELSE {Return(AiAnalysis("likely true")), Return(AiAnalysis("likely false"))}

NextText ==
    \/ \E p \in Slots, c \in AllClaims : ApiRequest(p, c)
    \/ \E p \in Slots : \E o \in AnsweringOutcomesOf(calls[p].stage) : Attempt(p, o)
    \/ \E p \in Slots : ComposeAndStore(p)
    \/ \E p \in Slots : ApiReceive(p)

SpecText == Init /\ [][NextText]_vars

\* The trending dashboard and GET /api/trending.
NextTrending ==
    \/ fetchTrendingNews
    \/ \E tl \in TopicLists, vs \in VerdictRuns : ServeTrending(tl, vs)
    \/ ServeTrendingFails
    \/ TrendingResolves
    \/ ReceiveTrending
    \/ \E m \in BodyErrors : TrendingJsonRejects(m)
    \/ TrendingFetchFails
    \/ \E tab \in {"trending", "journalist"} : setActiveTab(tab)

SpecTrending == Init /\ [][NextTrending]_vars

----------------------------------------------------------------------------
(* Properties *)

\* the claim consists of spaces only (or is empty)
AllSpaces(c) == \A i \in 1..Len(c) : c[i] = " "

\* the claim holds nothing but whitespace
AllWhitespace(c) == \A i \in 1..Len(c) : c[i] \in {" ", "^"}

\* slot p took up a request in this step
Begins(p) == calls[p].stage = "idle" /\ calls'[p].stage # "idle"

\* slot p called no adapter for its request
NoAdapterCalled(call) ==
    /\ call.fc = Pending /\ call.news = Pending /\ call.ai = Pending
    /\ call.log = <<>> /\ call.logOf = "none"

\* C1: factCheck answers every non-blank claim with a Verdict in a success
\* response, whatever the three sources did; it rejects blank claims and
\* nothing else, and no provider failure reaches the caller as an error.
C1_OnlyBlankRejected ==
    \A p \in Slots :
        calls[p].stage = "returned" =>
            /\ calls[p].via \in {"reject", "hit", "miss"}
            /\ calls[p].resp.status \in {200, 400}
            /\ calls[p].resp.status = 400 <=> AllWhitespace(calls[p].claim)
            /\ calls[p].resp.status = 200 =>
                  /\ calls[p].resp.data.verdict \in
                        {"VERIFIED", "FALSE", "MISLEADING", "UNCHECKED", "ANALYZED"}
                  /\ calls[p].resp.data.articles_count =
                        Len(calls[p].resp.data.supporting_articles)

\* a request whose three sources all failed was answered with a Verdict
C1_Witness ==
    \E p \in Slots :
        /\ calls[p].stage = "returned"
        /\ calls[p].fc = Unavailable("Timeout")
        /\ calls[p].news = Unavailable("RateLimited")
        /\ calls[p].ai = Unavailable("AuthError")
        /\ calls[p].resp.status = 200

\* C2: a call for a claim whose cache entry is younger than the TTL
\* returns the Verdict that the call which filled the entry returned, and
\* calls no adapter; the filling call returns exactly what it stores.
C2_SecondCallServedFromCache ==
    [][\A p \in Slots :
          /\ (/\ Begins(p)
              /\ get_cache_key(calls'[p].claim) \in DOMAIN cache
              /\ ~AllSpaces(calls'[p].claim)
              /\ now - cache[get_cache_key(calls'[p].claim)].timestamp < 3600)
             => /\ calls'[p].stage = "returned"
                /\ calls'[p].resp = Ok(cache[get_cache_key(calls'[p].claim)].data)
                /\ NoAdapterCalled(calls'[p])
                /\ cache' = cache
          /\ (calls[p].stage = "compose" /\ calls'[p].stage = "returned")
             => /\ get_cache_key(calls[p].claim) \in DOMAIN cache'
                /\ calls'[p].resp = Ok(cache'[get_cache_key(calls[p].claim)].data)
                /\ cache'[get_cache_key(calls[p].claim)].timestamp = now
      ]_vars

\* a call was served from an entry stored earlier, after time had passed
C2_Witness ==
    \E p \in Slots :
        /\ calls[p].stage = "returned"
        /\ calls[p].via = "hit"
        /\ now > cache[get_cache_key(calls[p].claim)].timestamp
        /\ calls[p].resp.data = cache[get_cache_key(calls[p].claim)].data
        /\ NoAdapterCalled(calls[p])

\* the claim text trimmed, then lower-cased
Normalized(c) == Lower(Strip(c))

\* C3: a call for a claim whose normalized text equals that of the claim
\* of a cache entry younger than the TTL has the fingerprint of that entry
\* and is served from it.
C3_SameNormalizedSameEntry ==
    [][\A p \in Slots : \A k \in DOMAIN cache :
          (/\ Begins(p)
           /\ Normalized(calls'[p].claim) = Normalized(cache[k].data.claim)
           /\ now - cache[k].timestamp < 3600)
          => /\ get_cache_key(calls'[p].claim) = k
             /\ get_cache_key(cache[k].data.claim) = k
             /\ calls'[p].via = "hit"
             /\ calls'[p].resp = Ok(cache[k].data)
      ]_vars

\* "A " was served from the entry that "a" had filled
C3_Witness ==
    \E p \in Slots :
        /\ calls[p].via = "hit"
        /\ calls[p].claim = <<"A", " ">>
        /\ calls[p].resp.data.claim = <<"a">>

\* C4: a blank claim is turned down with a caller-input error and calls
\* no adapter: the form sets its error and sends no request, the server
\* rejects the request without a provider call and leaves the cache alone.
C4_BlankRejectedNoAdapter ==
    [][/\ (handleSubmit /\ AllSpaces(claim))
          => /\ error' = <<"Please enter a claim to fact-check">>
             /\ inflight' = inflight
             /\ loading' = loading
             /\ nreq' = nreq
             /\ calls' = calls
             /\ cache' = cache
       /\ \A p \in Slots :
             (Begins(p) /\ AllSpaces(calls'[p].claim))
             => /\ calls'[p].stage = "returned"
                /\ calls'[p].resp.status = 400
                /\ NoAdapterCalled(calls'[p])
                /\ cache' = cache
      ]_vars

\* the form refused a blank text and the server rejected a blank claim
C4_Witness ==
    /\ error = <<"Please enter a claim to fact-check">>
    /\ AllSpaces(claim)
    /\ inflight = <<>>
    /\ \E p \in Slots :
          /\ calls[p].via = "reject"
          /\ calls[p].claim = <<" ", " ">>
          /\ calls[p].resp.status = 400

\* C5: when every attempt of the AI Adapter was rate limited and the News
\* Adapter returned at least one article, the Verdict carries articles and
\* its analysis is the rate-limit notice.
C5_RateLimitedStillArticles ==
    \A p \in Slots :
        (/\ calls[p].stage = "returned"
         /\ calls[p].via = "miss"
         /\ calls[p].logOf = "ai"
         /\ calls[p].log = <<"RateLimited", "RateLimited", "RateLimited">>
         /\ calls[p].news.kind = "ArticleList"
         /\ Len(calls[p].news.articles) >= 1)
        => /\ calls[p].resp.status = 200
           /\ Len(calls[p].resp.data.supporting_articles) >= 1
           /\ calls[p].resp.data.analysis = RateLimitNotice

C5_Witness ==
    \E p \in Slots :
        /\ calls[p].stage = "returned"
        /\ calls[p].log = <<"RateLimited", "RateLimited", "RateLimited">>
        /\ calls[p].logOf = "ai"
        /\ calls[p].news = ArticleList(<<A1, A2>>)
        /\ calls[p].resp.data.analysis = RateLimitNotice
        /\ calls[p].resp.data.articles_count = 2

\* the source whose retry loop the log of call is about has ended
LoopEnded(call) == call.logOf \in {"fc", "news", "ai"} /\ call.stage # call.logOf

\* the result that loop produced
LoopResult(call) ==
    IF call.logOf = "fc" THEN call.fc
    ELSE IF call.logOf = "news" THEN call.news
    ELSE call.ai

\* C6: with three attempts allowed, a source that fails transiently twice
\* and succeeds on the third attempt yields its successful result; a source
\* that fails transiently on all three yields Unavailable(reason) as a
\* value, after exactly three attempts, and the call goes on.
C6_ThirdAttemptCounts ==
    \A p \in Slots :
        LET call == calls[p] IN
        LoopEnded(call) =>
            /\ (/\ Len(call.log) = 3
                /\ call.log[1] \in TransientKinds
                /\ call.log[2] \in TransientKinds
                /\ call.log[3] = "ok")
               => LoopResult(call).kind \in {"FactCheckHit", "ArticleList", "AiAnalysis"}
            /\ call.log[Len(call.log)] \in TransientKinds
               => /\ Len(call.log) = 3
                  /\ call.log[1] \in TransientKinds
                  /\ call.log[2] \in TransientKinds
                  /\ LoopResult(call) = Unavailable(call.log[3])
                  /\ call.via # "error"
                  /\ call.stage = "returned" => call.resp.status = 200

\* the News Adapter was given up after three failures and the AI Adapter
\* answered on its third attempt
C6_Witness ==
    \E p \in Slots :
        /\ calls[p].news = Unavailable("Timeout")
        /\ calls[p].logOf = "ai"
        /\ calls[p].log = <<"Timeout", "RateLimited", "ok">>
        /\ calls[p].ai = AiAnalysis("likely true")
        /\ calls[p].stage = "compose"

\* sa holds articles of arts in the order they have in arts
IsSubsequence(sa, arts) ==
    \E f \in [1..Len(sa) -> 1..Len(arts)] :
        /\ \A i, j \in 1..Len(sa) : i < j => f[i] < f[j]
        /\ \A i \in 1..Len(sa) : sa[i] = arts[f[i]]

SameTriple(a, b) == a.title = b.title /\ a.source = b.source /\ a.url = b.url

\* C7: the Verdict's supporting_articles holds no two articles equal on
\* (title, source, URL), holds one article for every triple the News
\* Adapter returned, and keeps the adapter's order.
C7_ArticlesDeduplicated ==
    \A p \in Slots :
        (/\ calls[p].stage = "returned"
         /\ calls[p].via = "miss"
         /\ calls[p].news.kind = "ArticleList")
        => LET sa == calls[p].resp.data.supporting_articles
               arts == calls[p].news.articles
           IN /\ \A i, j \in 1..Len(sa) : i # j => ~SameTriple(sa[i], sa[j])
              /\ \A i \in 1..Len(arts) : \E j \in 1..Len(sa) : SameTriple(arts[i], sa[j])
              /\ IsSubsequence(sa, arts)

\* two articles that differ in the description only came in, one went out
C7_Witness ==
    \E p \in Slots :
        /\ calls[p].stage = "returned"
        /\ calls[p].news = ArticleList(<<A1, A1b>>)
        /\ Len(calls[p].resp.data.supporting_articles) = 1

\* the record of the fact-check database as a member of the result
FactCheckSubResult(fc) ==
    [verdict |-> fc.verdict, source |-> fc.source, summary |-> fc.summary]

Embeds(data, fc) ==
    /\ "google_fact_check" \in DOMAIN data
    /\ data.google_fact_check = FactCheckSubResult(fc)

\* C8: the label is the Fact-Check Adapter's verdict when it returned a
\* hit with a verdict other than UNCHECKED, with the sub-result embedded
\* beside the analysis, and ANALYZED otherwise.
C8_LabelFromFactCheck ==
    \A p \in Slots :
        (calls[p].stage = "returned" /\ calls[p].via = "miss")
        => IF calls[p].fc.kind = "FactCheckHit" /\ calls[p].fc.verdict # "UNCHECKED"
           THEN /\ calls[p].resp.data.verdict = calls[p].fc.verdict
                /\ Embeds(calls[p].resp.data, calls[p].fc)
                /\ calls[p].resp.data.analysis = calls[p].analysis
           ELSE calls[p].resp.data.verdict = "ANALYZED"

\* the fact-check database said FALSE; the label is ANALYZED and the result
\* has no member for the record
C8_Witness ==
    \E p \in Slots :
        /\ calls[p].stage = "returned"
        /\ calls[p].fc = FactCheckHit("FALSE", "PolitiFact", "s1")
        /\ calls[p].ai.kind = "AiAnalysis"
        /\ calls[p].resp.data.verdict = "ANALYZED"
        /\ "google_fact_check" \notin DOMAIN calls[p].resp.data

\* C9: only a transient failure is followed by another attempt: every
\* attempt but the last of a retry loop failed transiently, and an attempt
\* that ended in AuthError or in a well-formed answer without results ends
\* the loop at once.
C9_OnlyTransientRetried ==
    \A p \in Slots :
        LET call == calls[p] IN
        /\ \A i \in 1..(Len(call.log) - 1) :
              call.log[i] \in {"RateLimited", "Timeout", "ServerError"}
        /\ (call.log # <<>> /\ call.log[Len(call.log)] \in {"AuthError", "empty", "ok"})
           => LoopEnded(call)
        /\ (LoopEnded(call) /\ call.log[1] \in {"AuthError", "empty"})
           => Len(call.log) = 1

\* the AI Adapter was refused its credential and was called once
C9_Witness ==
    \E p \in Slots :
        /\ calls[p].stage = "compose"
        /\ calls[p].logOf = "ai"
        /\ calls[p].log = <<"AuthError">>
        /\ calls[p].ai = Unavailable("AuthError")
        /\ calls[p].fc = Unavailable("no_match")

\* C10: when the AI Adapter ended degraded, the analysis is the notice of
\* the failure kind (rate-limit notice exactly for RateLimited, the other
\* notice exactly for AuthError), the request succeeds, and the articles
\* and the fact-check data of the other sources are in the Verdict.
C10_NoticePerKind ==
    \A p \in Slots :
        (/\ calls[p].stage = "returned"
         /\ calls[p].via = "miss"
         /\ calls[p].ai.kind = "Unavailable")
        => LET data == calls[p].resp.data IN
           /\ calls[p].resp.status = 200
           /\ data.analysis = RateLimitNotice <=> calls[p].ai.reason = "RateLimited"
           /\ data.analysis = AuthNotice <=> calls[p].ai.reason = "AuthError"
           /\ RateLimitNotice # AuthNotice
           /\ calls[p].news.kind = "ArticleList"
              => /\ \A i \in 1..Len(calls[p].news.articles) :
                       \E j \in 1..Len(data.supporting_articles) :
                          SameTriple(calls[p].news.articles[i], data.supporting_articles[j])
                 /\ data.articles_count = Len(data.supporting_articles)
           /\ calls[p].fc.kind = "FactCheckHit" => Embeds(data, calls[p].fc)

\* the AI Adapter was refused its credential and the database had a
\* record; the Verdict has the auth notice and the article
C10_Witness ==
    \E p \in Slots :
        /\ calls[p].stage = "returned"
        /\ calls[p].ai = Unavailable("AuthError")
        /\ calls[p].news = ArticleList(<<A2>>)
        /\ calls[p].fc.kind = "FactCheckHit"
        /\ calls[p].resp.data.analysis = AuthNotice
        /\ calls[p].resp.data.supporting_articles = <<A2>>

\* C11: when all three sources ended Unavailable, the call still returns a
\* Verdict: label UNCHECKED or ANALYZED, no article, no fact-check
\* sub-result.
C11_AllUnavailableStillVerdict ==
    \A p \in Slots :
        (/\ calls[p].stage = "returned"
         /\ calls[p].fc.kind = "Unavailable"
         /\ calls[p].news.kind = "Unavailable"
         /\ calls[p].ai.kind = "Unavailable")
        => /\ calls[p].via = "miss"
           /\ calls[p].resp.status = 200
           /\ calls[p].resp.data.verdict \in {"UNCHECKED", "ANALYZED"}
           /\ calls[p].resp.data.supporting_articles = <<>>
           /\ calls[p].resp.data.articles_count = 0
           /\ "google_fact_check" \notin DOMAIN calls[p].resp.data

\* no record, no credential for the news search, an AI that timed out
C11_Witness ==
    \E p \in Slots :
        /\ calls[p].stage = "returned"
        /\ calls[p].fc = Unavailable("no_match")
        /\ calls[p].news = Unavailable("AuthError")
        /\ calls[p].ai = Unavailable("Timeout")
        /\ calls[p].resp.data.supporting_articles = <<>>

\* C12: a lookup serves an entry only while now minus its timestamp is
\* below 3600; from that age on the call is a miss that starts with the
\* first adapter and, when it has composed, stores an entry stamped with
\* the current time.  Time passing removes nothing: the entry is only
\* judged when it is read.
C12_ExpiryAtRead ==
    [][/\ \A p \in Slots :
            LET k == get_cache_key(calls'[p].claim) IN
            /\ (Begins(p) /\ calls'[p].via = "hit")
               => k \in DOMAIN cache /\ now - cache[k].timestamp < 3600
            /\ (/\ Begins(p)
                /\ ~AllWhitespace(calls'[p].claim)
                /\ k \in DOMAIN cache
                /\ now - cache[k].timestamp >= 3600)
               => /\ calls'[p].stage = "fc"
                  /\ calls'[p].resp = NoResp
                  /\ cache' = cache
            /\ (calls[p].stage = "compose" /\ calls'[p].stage = "returned")
               => cache'[k] = [data |-> calls'[p].resp.data, timestamp |-> now]
       /\ now' # now => cache' = cache
      ]_vars

\* the form got a result for a text at time 0 and, for the same text, a
\* result at time 3600: the entry stored at 0 had reached the TTL when it
\* was read, the second request ran the pipeline and its result replaced
\* the entry with one stamped 3600
C12_Witness ==
    /\ Len(history) = 2
    /\ history[2].claim = history[1].claim
    /\ history[2].timestamp = 0
    /\ history[1].timestamp = 3600
    /\ now = 3600
    /\ nreq = 2
    /\ LET k == get_cache_key(history[1].claim) IN
       /\ DOMAIN cache = {k}
       /\ cache[k] = [data |-> history[1].result, timestamp |-> 3600]

SameButFor(c1, c2, k) ==
    /\ DOMAIN c1 \ {k} = DOMAIN c2 \ {k}
    /\ \A x \in DOMAIN c1 \ {k} : c1[x] = c2[x]

\* C17: the cache changes only in the step that stores the Verdict composed
\* after a miss, and only in the entry of that call's fingerprint; a call
\* that hits changes no entry, neither Verdict nor timestamp, and a rejected
\* call changes none.
C17_OnlyInsertOnMiss ==
    [][/\ cache' # cache
          => \E p \in Slots :
                /\ calls[p].stage = "compose"
                /\ calls'[p].via = "miss"
                /\ SameButFor(cache', cache, get_cache_key(calls[p].claim))
       /\ \A p \in Slots :
             (Begins(p) /\ calls'[p].via \in {"hit", "reject"}) => cache' = cache
      ]_vars

\* the form was served from an entry of age 3599, which kept its timestamp
C17_Witness ==
    \E p \in Slots :
        /\ calls[p].via = "hit"
        /\ calls[p].caller = "ui"
        /\ cache[get_cache_key(calls[p].claim)].timestamp = 0
        /\ now = 3599

FinalResult(r) == r.kind \in {"FactCheckHit", "ArticleList", "AiAnalysis", "Unavailable"}

\* C19: on a miss the Verdict is composed, returned and cached only when
\* each of the three sources has its final result; a source is asked only
\* when the ones before it have theirs, and a give-up on a transient
\* failure comes after the third attempt.
C19_ComposeAfterAllSources ==
    /\ [](\A p \in Slots :
            LET call == calls[p] IN
            /\ (call.stage = "compose" \/ call.via = "miss")
               => FinalResult(call.fc) /\ FinalResult(call.news) /\ FinalResult(call.ai)
            /\ call.stage \in {"fc", "news", "ai", "compose"} => call.resp = NoResp
            /\ call.stage = "news" => FinalResult(call.fc)
            /\ call.stage = "ai" => FinalResult(call.fc) /\ FinalResult(call.news)
            /\ (LoopEnded(call) /\ LoopResult(call).kind = "Unavailable"
                /\ LoopResult(call).reason \in TransientKinds)
               => Len(call.log) = 3)
    /\ [][cache' # cache
          => \E p \in Slots :
                /\ calls[p].stage = "compose"
                /\ FinalResult(calls[p].fc)
                /\ FinalResult(calls[p].news)
                /\ FinalResult(calls[p].ai)
      ]_vars

\* a call is about to compose after the first two sources were given up
C19_Witness ==
    \E p \in Slots :
        /\ calls[p].stage = "compose"
        /\ calls[p].fc = Unavailable("RateLimited")
        /\ calls[p].news = Unavailable("RateLimited")
        /\ calls[p].ai.kind = "AiAnalysis"

InFlight(call) == call.stage \in {"fc", "news", "ai", "compose"}

\* the step in which the handler waiting for the call in p stops waiting
\* without a response
Abandons(p) ==
    /\ calls[p].caller = "ui"
    /\ calls'[p].caller # "ui"
    /\ ~(calls[p].stage = "returned" /\ Len(response') > Len(response))

\* the step in which the form is unmounted by a change of tab
Unmounts == activeTab = "journalist" /\ activeTab' # activeTab

\* C20: a caller that gives up while its request is in flight stops
\* nothing: the call keeps its position and results, each later step of it
\* goes on as for a waiting caller, and its Verdict is composed and stored
\* under the fingerprint with the time of the store, where a later call
\* within the TTL finds it.
C20_AbandonedStillCached ==
    [][\A p \in Slots :
        LET k == get_cache_key(calls[p].claim) IN
        /\ Abandons(p)
           => /\ calls'[p] = [calls[p] EXCEPT !.caller = "gone"]
              /\ cache' = cache
              /\ Unmounts \/ (error' = <<"Failed to fetch">> /\ ~loading')
        /\ (calls[p].caller = "gone" /\ InFlight(calls[p]) /\ calls'[p] # calls[p])
           => /\ calls'[p].caller = "gone"
              /\ calls'[p].claim = calls[p].claim
              /\ calls'[p].stage \in {calls[p].stage, NextStage(calls[p].stage), "returned"}
        /\ (calls[p].caller = "gone" /\ calls[p].stage = "compose" /\ calls'[p] # calls[p])
           => /\ calls'[p].stage = "returned"
              /\ calls'[p].resp.status = 200
              /\ calls'[p].resp.data = ComposeVerdict(calls[p].claim, calls[p].articles,
                                                      calls[p].analysis)
              /\ cache'[k] = [data |-> calls'[p].resp.data, timestamp |-> now]
        /\ (/\ Begins(p)
            /\ ~AllWhitespace(calls'[p].claim)
            /\ get_cache_key(calls'[p].claim) \in DOMAIN cache
            /\ now - cache[get_cache_key(calls'[p].claim)].timestamp < TTL)
           => /\ calls'[p].via = "hit"
              /\ calls'[p].resp.data = cache[get_cache_key(calls'[p].claim)].data
      ]_vars

\* the form gave up while the request was in flight, and the call has since
\* been through the three sources, the last one to its third attempt
C20_Witness ==
    \E p \in Slots :
        /\ calls[p].caller = "gone"
        /\ calls[p].stage = "compose"
        /\ calls[p].ai = Unavailable("RateLimited")
        /\ Len(calls[p].log) = 3
        /\ error = <<"Failed to fetch">>
        /\ ~loading

\* ---------------------------------------------------------------------
\* Two requests in the server at once: the endpoint runs in a thread per
\* request, and the lookup, the adapter calls and the store of one request
\* interleave with those of the other.
RaceSlots == {"s1", "s2"}

\* two texts of one fingerprint
RaceClaims == {<<"a">>, <<"A", " ">>}

InitRace ==
    /\ calls = [p \in RaceSlots |-> IdleCall]
    /\ cache = <<>>
    /\ now = 0
    /\ nreq = 0
    /\ claim = <<>>
    /\ result = <<>>
    /\ loading = FALSE
    /\ error = <<>>
    /\ history = <<>>
    /\ inflight = <<>>
    /\ response = <<>>
    /\ activeTab = "trending"
    /\ TrendingMounted

NextRace ==
    \/ \E p \in RaceSlots, c \in RaceClaims : ApiRequest(p, c)
    \/ \E p \in RaceSlots : \E o \in FewOutcomesOf(calls[p].stage) : Attempt(p, o)
    \/ \E p \in RaceSlots : ComposeAndStore(p)
    \/ \E p \in RaceSlots : ApiReceive(p)

SpecRace == InitRace /\ [][NextRace]_vars

\* a cache entry holding one whole Verdict for fingerprint k
CompleteEntry(k, e) ==
    /\ DOMAIN e = {"data", "timestamp"}
    /\ DOMAIN e.data = {"claim", "verdict", "analysis", "supporting_articles",
                        "articles_count"}
    /\ get_cache_key(e.data.claim) = k
    /\ e.data.verdict = "ANALYZED"
    /\ e.data.articles_count = Len(e.data.supporting_articles)
    /\ e.timestamp \in 0..now

\* C16: when two calls for one fingerprint both miss, each returns the
\* Verdict composed from its own three results; the entry of a fingerprint
\* is at every moment absent or one whole Verdict; each store puts the
\* storing call's Verdict there, so the entry is the last writer's, and
\* once both have returned it is the Verdict of one of the two.
C16_RaceLastWriterWins ==
    /\ [](/\ \A k \in DOMAIN cache : CompleteEntry(k, cache[k])
          /\ \A p \in RaceSlots :
                calls[p].via = "miss"
                => /\ calls[p].resp = Ok(ComposeVerdict(calls[p].claim, calls[p].articles,
                                                        calls[p].analysis))
                   /\ calls[p].articles = SupportingArticles(calls[p].news)
                   /\ calls[p].analysis = AnalysisText(calls[p].ai)
          /\ \A p, q \in RaceSlots :
                (/\ p # q
                 /\ calls[p].via = "miss"
                 /\ calls[q].via = "miss"
                 /\ get_cache_key(calls[p].claim) = get_cache_key(calls[q].claim))
                => cache[get_cache_key(calls[p].claim)].data
                       \in {calls[p].resp.data, calls[q].resp.data})
    /\ [][/\ \A p \in RaceSlots :
              LET k == get_cache_key(calls[p].claim) IN
              ((calls[p].stage = "compose" /\ calls'[p].stage = "returned")
               => /\ cache'[k] = [data |-> calls'[p].resp.data, timestamp |-> now]
                  /\ SameButFor(cache', cache, k))
          /\ (cache' # cache)
             => (\E q \in RaceSlots :
                   calls[q].stage = "compose" /\ calls'[q].stage = "returned")
      ]_vars

\* both calls missed and returned different Verdicts for the fingerprint;
\* the entry is the second writer's
C16_Witness ==
    /\ calls["s1"].via = "miss"
    /\ calls["s2"].via = "miss"
    /\ calls["s1"].claim = <<"a">>
    /\ calls["s2"].claim = <<"A", " ">>
    /\ calls["s1"].resp.data.analysis # calls["s2"].resp.data.analysis
    /\ cache[get_cache_key(<<"a">>)].data = calls["s2"].resp.data
    /\ Cardinality(DOMAIN cache) = 1

\* ---------------------------------------------------------------------
\* The pipeline under fairness: the thread of a request is never stopped
\* for ever, and every provider call ends, by an answer or by its timeout,
\* so an enabled attempt and an enabled composition are eventually taken.
\* Which outcome a provider call has stays free: an answer, a timeout, a
\* refused credential.
LiveOutcomesOf(stage) ==
    {Raise("Timeout"), Raise("AuthError")} \cup
    (IF stage = "fc"
     THEN {Return(FactCheckHit("FALSE", "PolitiFact", "s1"))}
     ELSE IF stage = "news"
     THEN {Return(ArticleList(<<A1>>))}
     ELSE {Return(AiAnalysis("likely true"))})

NextLive ==
    \/ \E p \in Slots, c \in EngineClaims : ApiRequest(p, c)
    \/ \E p \in Slots : \E o \in LiveOutcomesOf(calls[p].stage) : Attempt(p, o)
    \/ \E p \in Slots : ComposeAndStore(p)
    \/ \E p \in Slots : ApiReceive(p)

Fairness ==
    \A p \in Slots :
        /\ WF_vars(\E o \in LiveOutcomesOf(calls[p].stage) : Attempt(p, o))
        /\ WF_vars(ComposeAndStore(p))

SpecLive == Init /\ [][NextLive]_vars /\ Fairness

\* C18: every call that the pipeline has taken up eventually returns,
\* whatever the providers answer.
C18_EveryCallReturns ==
    \A p \in Slots : InFlight(calls[p]) ~> calls[p].stage = "returned"

\* a call returned although each provider timed out on every attempt
C18_Witness ==
    \E p \in Slots :
        /\ calls[p].stage = "returned"
        /\ calls[p].fc = Unavailable("Timeout")
        /\ calls[p].news = Unavailable("Timeout")
        /\ calls[p].ai = Unavailable("Timeout")
        /\ calls[p].resp.status = 200

\* the dashboard shows its cards
Rendered == ~newsLoading /\ newsError = <<>>

\* C13: the items of a trending response, and the cards the dashboard
\* renders from them, are at most 5; the k-th has rank k, so ranks start at
\* 1, are consecutive and unique; and the k-th item is the k-th headline of
\* the trending list.
C13_RanksFollowList ==
    /\ Len(newsItems) <= 5
    /\ \A k \in 1..Len(newsItems) : newsItems[k].id = k
    /\ (trending # NoTrending /\ trending[1].status = 200)
       => LET items == trending[1].data IN
          /\ Len(items) = Min(Len(topics), 5)
          /\ \A k \in 1..Len(items) : items[k].id = k /\ items[k].title = topics[k]
    /\ Rendered
       => /\ Len(newsItems) = Min(Len(topics), 5)
          /\ \A k \in 1..Len(newsItems) : newsItems[k].title = topics[k]

\* the dashboard renders five cards from a list of six headlines in falling
\* order
C13_Witness ==
    /\ Rendered
    /\ Len(topics) = 6
    /\ topics[1] = 6
    /\ Len(newsItems) = 5
    /\ newsItems[5].id = 5
    /\ newsItems[5].title = 2

\* the colour group of a pictograph: the check mark goes with green, the
\* cross mark with red, the warning sign with yellow
IconGroup(icon) ==
    CASE icon = "check mark" -> "verified"
      [] icon = "cross mark" -> "false"
      [] icon = "warning sign" -> "unchecked"
      [] OTHER -> "none"

\* C14: on every rendered card whose label is one of VERIFIED, FALSE,
\* MISLEADING, UNCHECKED, ANALYZED (and on needs-review labels), the badge
\* class is 'verified' for VERIFIED, 'false' for FALSE and MISLEADING,
\* 'unchecked' for UNCHECKED and needs-review, and the icon is of the same
\* group as the class.
C14_ClassAndIconAgree ==
    Rendered =>
        \A k \in 1..Len(newsItems) :
            LET v == newsItems[k].verdict IN
            /\ v = VERIFIED => getVerdictClass(v) = "verified"
            /\ v \in {FALSE_, MISLEADING} => getVerdictClass(v) = "false"
            /\ v \in {UNCHECKED, NeedsReview} => getVerdictClass(v) = "unchecked"
            /\ v \in VerdictLabels => IconGroup(getVerdictIcon(v)) = getVerdictClass(v)

\* a rendered card carries the label ANALYZED
C14_Witness ==
    /\ Rendered
    /\ \E k \in 1..Len(newsItems) : newsItems[k].verdict = ANALYZED

\* a request of the mounted form is on its way to the server, held by it,
\* or answered with the body still being read
UiRequestPending ==
    \/ \E i \in 1..Len(inflight) : inflight[i].live
    \/ response # <<>>
    \/ \E p \in Slots : calls[p].caller = "ui"

\* the step in which a handler of the mounted form goes on after
\* response.json() has settled
Responds == Len(response') < Len(response) /\ activeTab' = activeTab

\* the step in which a handler of the mounted form ends
Finishes ==
    /\ activeTab' = activeTab
    /\ \/ Responds
       \/ \E p \in Slots : Abandons(p)
       \/ Len(inflight') < Len(inflight) /\ calls' = calls

BlankMessage == <<"Please enter a claim to fact-check">>

\* C21: loading is true only while a request of the form is in flight, and
\* the button is disabled then; the step that ends a handler, with a 200
\* response, another response or a network failure, sets it to false; a
\* submit of a blank text leaves it as it is and sends nothing; it becomes
\* true only in a submit that sends the trimmed text.
C21_LoadingWhileInFlight ==
    /\ [](loading => UiRequestPending /\ activeTab = "journalist" /\ submitDisabled)
    /\ [][/\ Finishes => ~loading'
          /\ (error' = BlankMessage /\ error # BlankMessage)
             => /\ loading' = loading
                /\ trim(claim) = <<>>
                /\ inflight' = inflight
                /\ calls' = calls
          /\ (~loading /\ loading')
             => trim(claim) # <<>> /\ inflight' = Append(inflight, Post(trim(claim)))
      ]_vars

\* the server refused the form's request, and the form is ready again
C21_Witness ==
    /\ ~loading
    /\ error = <<Rejected.detail>>
    /\ inflight = <<>>
    /\ response = <<>>
    /\ \A p \in Slots : calls[p].stage = "idle"
    /\ claim = <<"^">>

\* C22: each 200 response to the form puts exactly one entry at the front of
\* the history, holding the trimmed text that was submitted and the
\* returned result, which is also the displayed result; a blank submit and
\* a failed request set the error and leave history and result as they
\* were; clearHistory empties the history and the result; nothing else
\* changes the history.
C22_HistoryNewestFirst ==
    [][/\ (Len(inflight') > Len(inflight))
          => inflight' = Append(inflight, Post(trim(claim)))
       /\ (Len(response') > Len(response))
          => \E p \in Slots :
                /\ calls[p].caller = "ui"
                /\ response' = Append(response, [resp |-> calls[p].resp,
                                                 claim |-> calls[p].claim])
       /\ Responds
          => \E i \in 1..Len(response) :
                /\ response' = Remove(response, i)
                /\ \/ /\ response[i].resp.status = 200
                      /\ history' = <<[claim |-> response[i].claim,
                                       result |-> response[i].resp.data,
                                       timestamp |-> now]>> \o history
                      /\ result' = <<response[i].resp.data>>
                   \/ /\ history' = history
                      /\ result' = result
                      /\ error' # <<>>
                      /\ response[i].resp.status = 200
                         => error' \in {<<m>> : m \in BodyErrors}
       /\ (error' = BlankMessage /\ error # BlankMessage)
          => history' = history /\ result' = result
       /\ (history' # history \/ result' # result)
          => \/ Responds /\ Len(history') = Len(history) + 1
             \/ history' = <<>> /\ result' = <<>>
      ]_vars

\* two requests of the form succeeded; the later one is first in the
\* history and on display
C22_Witness ==
    /\ Len(history) = 2
    /\ history[1].claim = <<"a", "a">>
    /\ history[2].claim = <<"a">>
    /\ result = <<history[1].result>>
    /\ claim = <<>>

====
